---- MODULE Spec2Model ----
(***************************************************************************)
(* A model of songscraper.py: the command-line downloader that turns       *)
(* references (tab URLs, search terms, file or standard-input lines) into  *)
(* song identifiers, picks a revision per song and streams its file to     *)
(* the output directory.                                                   *)
(*                                                                         *)
(* A Python str is modelled as a sequence of one-character strings, so     *)
(* that startswith, strip, isdigit, int, join and the regular expression   *)
(* -s(\d+) are computed character by character as the code computes them.  *)
(***************************************************************************)
EXTENDS Integers, Sequences, FiniteSets, TLC

VARIABLES
    pc,           \* position of main(): the stage of the run
    error,        \* the exception that ended the run ("none" while running)
    args,         \* args.url: the positional references
    file,         \* args.file: "none", "-" (standard input) or "path"
    lines,        \* the lines of the file or of standard input, as splitlines() gives them
    interactive,  \* args.interactive
    isatty,       \* sys.stdin.isatty()
    urls,         \* main's urls after dedupe_preserve_order
    extracts,     \* the references extract_song_id has been called on, in order
    search_text,  \* resolve_song_ids' search text, once it has one
    searches,     \* the patterns search_songs has been called with, in order
    songs,        \* the list search_songs returned
    song_ids,     \* what resolve_song_ids returned
    k,            \* position in song_ids of the song main's loop is at
    revisions,    \* what get_revisions returned for the current song
    revision_id,  \* the revision chosen for the current song
    out_path,     \* the file name download_gp_file derived for the current song
    disk,         \* the files of the output directory
    trace,        \* the per-song operations carried out so far, in order
    choice,       \* the line the last input() call returned
    reads         \* the input() calls of the numbered prompt loop that is running or ran last

vars == <<pc, error, args, file, lines, interactive, isatty, urls, extracts,
          search_text, searches, songs, song_ids, k, revisions, revision_id, out_path,
          disk, trace, choice, reads>>

(***************************************************************************)
(* Characters and strings.                                                 *)
(***************************************************************************)

\* The ASCII decimal digits, in order of value.
DigitChars == <<"0", "1", "2", "3", "4", "5", "6", "7", "8", "9">>

Digit == {DigitChars[i] : i \in 1..Len(DigitChars)}

DigitVal(c) == (CHOOSE i \in 1..Len(DigitChars) : DigitChars[i] = c) - 1

\* U+00B2 SUPERSCRIPT TWO, written as one character token. str.isdigit() is
\* true of it, int() raises ValueError on it and \d does not match it.
SuperscriptTwo == "^2"

\* The characters str.strip() removes.
IsSpace(c) == c \in {" ", "\t"}

RECURSIVE lstrip(_)
lstrip(s) == IF s # <<>> /\ IsSpace(Head(s)) THEN lstrip(Tail(s)) ELSE s

RECURSIVE rstrip(_)
rstrip(s) ==
    IF s # <<>> /\ IsSpace(s[Len(s)]) THEN rstrip(SubSeq(s, 1, Len(s) - 1)) ELSE s

strip(s) == rstrip(lstrip(s))

startswith(s, prefix) ==
    Len(s) >= Len(prefix) /\ SubSeq(s, 1, Len(prefix)) = prefix

\* str.isdigit(): non-empty and every character a digit character, the
\* superscript digits included.
isdigit(s) == s # <<>> /\ \A i \in 1..Len(s) : s[i] \in Digit \cup {SuperscriptTwo}

\* Whether int(s) returns (it raises ValueError otherwise), for an s that
\* passed isdigit.
int_ok(s) == \A i \in 1..Len(s) : s[i] \in Digit

\* int(s) for a run of decimal digits.
RECURSIVE int_of(_)
int_of(s) ==
    IF s = <<>> THEN 0
    ELSE 10 * int_of(SubSeq(s, 1, Len(s) - 1)) + DigitVal(s[Len(s)])

\* " ".join(items)
RECURSIVE join(_)
join(items) ==
    IF items = <<>> THEN <<>>
    ELSE IF Len(items) = 1 THEN items[1]
    ELSE items[1] \o <<" ">> \o join(Tail(items))

Http == <<"h", "t", "t", "p", ":", "/", "/">>
Https == <<"h", "t", "t", "p", "s", ":", "/", "/">>

is_url(value) == startswith(value, Http) \/ startswith(value, Https)

(***************************************************************************)
(* extract_song_id: re.search(r"-s(\d+)", url), then int of the group.     *)
(***************************************************************************)

\* The pattern matches at position i: "-", "s" and at least one digit.
MatchAt(url, i) ==
    /\ i + 2 <= Len(url)
    /\ url[i] = "-"
    /\ url[i + 1] = "s"
    /\ url[i + 2] \in Digit

\* The last position of the digit run that starts at position i (\d+ is greedy).
RECURSIVE RunEnd(_, _)
RunEnd(url, i) ==
    IF i + 1 <= Len(url) /\ url[i + 1] \in Digit THEN RunEnd(url, i + 1) ELSE i

\* ok is FALSE where the code raises ValueError; val is the identifier.
extract_song_id(url) ==
    LET hits == {i \in 1..Len(url) : MatchAt(url, i)}
    IN  IF hits = {} THEN [ok |-> FALSE, val |-> 0]
        ELSE LET i == CHOOSE h \in hits : \A g \in hits : h <= g
             IN  [ok |-> TRUE, val |-> int_of(SubSeq(url, i + 2, RunEnd(url, i + 2)))]

(***************************************************************************)
(* Input normalisation.                                                    *)
(***************************************************************************)

\* load_urls_from_file, from the lines read: each stripped, blank lines and
\* lines starting with "#" skipped.
RECURSIVE load_urls_from_file(_)
load_urls_from_file(ls) ==
    IF ls = <<>> THEN <<>>
    ELSE LET line == strip(Head(ls))
         IN  IF line = <<>> \/ startswith(line, <<"#">>)
             THEN load_urls_from_file(Tail(ls))
             ELSE <<line>> \o load_urls_from_file(Tail(ls))

\* The loop of dedupe_preserve_order over items, from the seen set and the
\* result built so far.
RECURSIVE dedupe_loop(_, _, _)
dedupe_loop(items, seen, result) ==
    IF items = <<>> THEN result
    ELSE IF Head(items) \in seen THEN dedupe_loop(Tail(items), seen, result)
    ELSE dedupe_loop(Tail(items), seen \cup {Head(items)}, Append(result, Head(items)))

\* A deduplication that keeps each reference at its last occurrence.
RECURSIVE dedupe_keep_last(_)
dedupe_keep_last(items) ==
    IF items = <<>> THEN <<>>
    ELSE IF \E i \in 2..Len(items) : items[i] = Head(items)
    THEN dedupe_keep_last(Tail(items))
    ELSE <<Head(items)>> \o dedupe_keep_last(Tail(items))

dedupe_preserve_order(items) == dedupe_loop(items, {}, <<>>)

\* main's urls before deduplication: the positionals, then the file's lines
\* when --file is given, or standard input's when there is no positional,
\* standard input is not a terminal and the run is not interactive.
MergedInput ==
    IF file # "none" THEN args \o load_urls_from_file(lines)
    ELSE IF args = <<>> /\ ~isatty /\ ~interactive
         THEN args \o load_urls_from_file(lines)
         ELSE args

(***************************************************************************)
(* Resolution helpers.                                                     *)
(***************************************************************************)

Min(S) == CHOOSE x \in S : \A y \in S : x <= y

\* A resolution that leaves out the references with no identifier.
build_skipping_bad(us) ==
    LET good == {i \in 1..Len(us) : extract_song_id(us[i]).ok}
        RECURSIVE pick(_)
        pick(i) ==
            IF i > Len(us) THEN <<>>
            ELSE IF i \in good THEN <<extract_song_id(us[i]).val>> \o pick(i + 1)
            ELSE pick(i + 1)
    IN  [ok |-> good # {}, ids |-> pick(1), tried |-> us]

\* build_song_ids_from_urls: the comprehension calls extract_song_id on each
\* reference in order and stops at the first one that raises. tried is the
\* references it was called on.
build_song_ids_from_urls(us) ==
    LET bad == {i \in 1..Len(us) : ~extract_song_id(us[i]).ok}
    IN  IF bad = {}
        THEN [ok |-> TRUE,
              ids |-> [i \in 1..Len(us) |-> extract_song_id(us[i]).val],
              tried |-> us]
        ELSE [ok |-> FALSE, ids |-> <<>>, tried |-> SubSeq(us, 1, Min(bad))]

\* The entry after the one numbered idx, the last one's being the first.
item_at_from_zero(list, idx) == list[(idx % Len(list)) + 1]

\* The entry numbered idx of a list printed with enumerate(..., start=1):
\* list[idx - 1] in Python's indexing from zero.
item_at(list, idx) == list[idx]

\* A loop that leaves out every other song.
SkipSong(i) == i + 2

\* main's for loop, line 236: the position after position i.
NextSong(i) == i + 1

\* any(is_url(u) for u in urls)
any_url(us) == \E i \in 1..Len(us) : is_url(us[i])

\* all(is_url(u) for u in urls)
all_urls(us) == \A i \in 1..Len(us) : is_url(us[i])

\* The revisionId of the revision created last.
latest_by_created_at(revs) ==
    LET i == CHOOSE a \in 1..Len(revs) :
                 \A b \in 1..Len(revs) : revs[b].createdAt <= revs[a].createdAt
    IN  revs[i].revisionId

\* get_latest_revision_id: the highest revisionId of the list.
get_latest_revision_id(revs) ==
    LET ids == {revs[i].revisionId : i \in 1..Len(revs)}
    IN  CHOOSE m \in ids : \A x \in ids : x <= m

(***************************************************************************)
(* Bounds and the values the environment supplies.                         *)
(***************************************************************************)

\* input() calls a prompt loop makes before the model stops following it.
MaxReads == 2

\* Length of the list a search returns.
MaxSongs == 2

\* All sequences over S of length at most n.
SeqsUpTo(S, n) == UNION {[1..m -> S] : m \in 0..n}

NoDuplicates(s) == \A i, j \in 1..Len(s) : s[i] = s[j] => i = j

\* input() raising EOFError, as a value no line equals.
EOF == <<"EOF">>

\* Lines typed at a numbered prompt: blank, spaces only, in range, padded,
\* zero-prefixed, zero, above any list, not a number, signed, superscript.
Entries ==
    { <<>>, <<" ">>, <<"1">>, <<" ", "2", " ">>, <<"0", "3">>, <<"0">>,
      <<"9">>, <<"x">>, <<"-", "1">>, <<SuperscriptTwo>> }

\* Lines typed at the "Search text: " prompt.
SearchTexts == { <<>>, <<" ", " ">>, <<"f", "o", "o">>, <<" ", "f", "o", " ">> }

\* The records a search returns; only songId is read for the result.
SongPool == { [songId |-> 5], [songId |-> 9] }

SongLists == SeqsUpTo(SongPool, MaxSongs)

\* Revision records. createdAt is the year of the timestamp; it disagrees
\* with the order of revisionId.
RevPool ==
    { [revisionId |-> 5, createdAt |-> 2020],
      [revisionId |-> 9, createdAt |-> 2019],
      [revisionId |-> 7, createdAt |-> 2021] }

\* The lists get_revisions is answered with during a whole run.
RunRevLists ==
    { <<>>,
      << [revisionId |-> 7, createdAt |-> 2021] >>,
      << [revisionId |-> 9, createdAt |-> 2019],
         [revisionId |-> 5, createdAt |-> 2020] >> }

\* The names line 122 can derive from a revision's artist, title and source.
FileNames == { "A - T.gp", "B - T.gp5" }

Event(op) == [op |-> op, k |-> k, song |-> song_ids[k]]

(***************************************************************************)
(* main(), one action per call that blocks or can raise.                   *)
(***************************************************************************)

\* An except clause inside the loop: an error of the per-song stage sends
\* the run back to the head of the loop.
RetryOnError(e) ==
    /\ pc' = IF pc \in {"PerSong", "Selecting", "RevisionPrompt", "Fetching", "Streaming"}
             THEN "PerSong" ELSE "Aborted"
    /\ error' = e

\* Every exception reaches main's except clause: message printed, exit 1.
Abort(e) == pc' = "Aborted" /\ error' = e

\* main, lines 224-232: the output directory, the references, the dedupe.
Normalize ==
    /\ pc = "Normalizing"
    /\ \/ /\ Abort("OSError: makedirs")
          /\ UNCHANGED <<urls, lines>>
       \/ /\ file = "path"
          /\ Abort("OSError: open")
          /\ UNCHANGED <<urls, lines>>
       \/ /\ urls' = dedupe_preserve_order(MergedInput)
          /\ pc' = "Resolving"
          /\ UNCHANGED <<error, lines>>
    /\ UNCHANGED <<args, file, interactive, isatty, extracts, search_text,
                   searches, songs, song_ids, k, revisions, revision_id,
                   out_path, disk, trace, choice, reads>>

\* resolve_song_ids, lines 183-196, up to its first search or prompt.
Resolve ==
    /\ pc = "Resolving"
    /\ \/ /\ urls # <<>>
          /\ interactive => all_urls(urls)
          /\ LET r == build_song_ids_from_urls(urls)
             IN  /\ extracts' = extracts \o r.tried
                 /\ IF r.ok
                    THEN song_ids' = r.ids /\ k' = 1 /\ pc' = "PerSong"
                         /\ UNCHANGED error
                    ELSE Abort("ValueError: Could not extract song ID from URL")
                         /\ UNCHANGED <<song_ids, k>>
          /\ UNCHANGED search_text
       \/ /\ urls = <<>>
          /\ ~interactive
          /\ Abort("RuntimeError: No URLs or search selection provided")
          /\ UNCHANGED <<extracts, song_ids, k, search_text>>
       \/ /\ urls # <<>>
          /\ interactive
          /\ ~all_urls(urls)
          /\ LET text == strip(join(urls))
             IN  IF text = <<>>
                 THEN Abort("RuntimeError: Search text cannot be empty")
                      /\ UNCHANGED search_text
                 ELSE search_text' = text /\ pc' = "Searching" /\ UNCHANGED error
          /\ UNCHANGED <<extracts, song_ids, k>>
       \/ /\ urls = <<>>
          /\ interactive
          /\ pc' = "SearchTextPrompt"
          /\ UNCHANGED <<error, extracts, song_ids, k, search_text>>
    /\ UNCHANGED <<args, file, lines, interactive, isatty, urls, searches,
                   songs, revisions, revision_id, out_path, disk, trace,
                   choice, reads>>

\* prompt_search_text, lines 171-175.
PromptSearchText ==
    /\ pc = "SearchTextPrompt"
    /\ \E entry \in SearchTexts \cup {EOF} :
          /\ choice' = entry
          /\ IF entry = EOF
             THEN Abort("EOFError") /\ UNCHANGED search_text
             ELSE IF strip(entry) = <<>>
             THEN Abort("RuntimeError: Search text cannot be empty")
                  /\ UNCHANGED search_text
             ELSE search_text' = strip(entry) /\ pc' = "Searching"
                  /\ UNCHANGED error
    /\ UNCHANGED <<args, file, lines, interactive, isatty, urls, extracts,
                   searches, songs, song_ids, k, revisions, revision_id,
                   out_path, disk, trace, reads>>

\* choose_song_id, lines 178-180: search_songs (41-50), then prompt_song_choice
\* up to its loop (53-62).
SearchSongs ==
    /\ pc = "Searching"
    /\ searches' = Append(searches, search_text)
    /\ \/ /\ Abort("HTTPError: search")
          /\ UNCHANGED <<songs, song_ids, k, reads>>
       \/ \E found \in SongLists :
             /\ songs' = found
             /\ IF found = <<>>
                THEN Abort("RuntimeError: No songs found for search")
                     /\ UNCHANGED <<song_ids, k, reads>>
                ELSE IF Len(found) = 1
                THEN song_ids' = <<found[1].songId>> /\ k' = 1
                     /\ pc' = "PerSong" /\ UNCHANGED <<error, reads>>
                ELSE pc' = "SongPrompt" /\ reads' = 0
                     /\ UNCHANGED <<error, song_ids, k>>
    /\ UNCHANGED <<args, file, lines, interactive, isatty, urls, extracts,
                   search_text, revisions, revision_id, out_path, disk,
                   trace, choice>>

\* One turn of prompt_song_choice's loop, lines 64-72.
PromptSongChoice ==
    /\ pc = "SongPrompt"
    /\ reads < MaxReads
    /\ \E entry \in Entries \cup {EOF} :
          /\ choice' = entry
          /\ reads' = reads + 1
          /\ LET c == strip(entry)
             IN  IF entry = EOF
                 THEN Abort("EOFError") /\ UNCHANGED <<song_ids, k>>
                 ELSE IF ~isdigit(c)
                 THEN UNCHANGED <<pc, error, song_ids, k>>
                 ELSE IF ~int_ok(c)
                 THEN Abort("ValueError: invalid literal for int()")
                      /\ UNCHANGED <<song_ids, k>>
                 ELSE IF 1 <= int_of(c) /\ int_of(c) <= Len(songs)
                 THEN song_ids' = <<item_at(songs, int_of(c)).songId>> /\ k' = 1
                      /\ pc' = "PerSong" /\ UNCHANGED error
                 ELSE UNCHANGED <<pc, error, song_ids, k>>
    /\ UNCHANGED <<args, file, lines, interactive, isatty, urls, extracts,
                   search_text, searches, songs, revisions, revision_id,
                   out_path, disk, trace>>

\* get_revisions, lines 24-33, for the song the loop is at (line 239).
GetRevisions ==
    /\ pc = "PerSong"
    /\ trace' = Append(trace, Event("listRevisions"))
    /\ \/ /\ Abort("HTTPError: revisions")
          /\ UNCHANGED revisions
       \/ \E revs \in RunRevLists :
             /\ revisions' = revs
             /\ IF revs = <<>>
                THEN Abort("RuntimeError: No revisions returned")
                ELSE pc' = "Selecting" /\ UNCHANGED error
    /\ UNCHANGED <<args, file, lines, interactive, isatty, urls, extracts,
                   search_text, searches, songs, song_ids, k, revision_id,
                   out_path, disk, choice, reads>>

\* main, lines 240-245: the latest revision in batch mode;
\* prompt_revision_choice up to its loop (75-85) in interactive mode.
SelectRevision ==
    /\ pc = "Selecting"
    /\ \/ /\ ~interactive
          /\ revision_id' = get_latest_revision_id(revisions)
          /\ trace' = Append(trace, Event("select"))
          /\ pc' = "Fetching"
          /\ UNCHANGED reads
       \/ /\ interactive
          /\ Len(revisions) = 1
          /\ revision_id' = revisions[1].revisionId
          /\ trace' = Append(trace, Event("select"))
          /\ pc' = "Fetching"
          /\ UNCHANGED reads
       \/ /\ interactive
          /\ Len(revisions) # 1
          /\ pc' = "RevisionPrompt"
          /\ reads' = 0
          /\ UNCHANGED <<revision_id, trace>>
    /\ UNCHANGED <<error, args, file, lines, interactive, isatty, urls,
                   extracts, search_text, searches, songs, song_ids, k,
                   revisions, out_path, disk, choice>>

\* One turn of prompt_revision_choice's loop, lines 87-97.
PromptRevisionChoice ==
    /\ pc = "RevisionPrompt"
    /\ reads < MaxReads
    /\ \E entry \in Entries \cup {EOF} :
          /\ choice' = entry
          /\ reads' = reads + 1
          /\ LET c == strip(entry)
                 chosen(id) == /\ revision_id' = id
                               /\ trace' = Append(trace, Event("select"))
                               /\ pc' = "Fetching"
                               /\ UNCHANGED error
             IN  IF entry = EOF
                 THEN Abort("EOFError") /\ UNCHANGED <<revision_id, trace>>
                 ELSE IF c = <<>>
                 THEN chosen(get_latest_revision_id(revisions))
                 ELSE IF ~isdigit(c)
                 THEN UNCHANGED <<pc, error, revision_id, trace>>
                 ELSE IF ~int_ok(c)
                 THEN Abort("ValueError: invalid literal for int()")
                      /\ UNCHANGED <<revision_id, trace>>
                 ELSE IF 1 <= int_of(c) /\ int_of(c) <= Len(revisions)
                 THEN chosen(item_at(revisions, int_of(c)).revisionId)
                 ELSE UNCHANGED <<pc, error, revision_id, trace>>
    /\ UNCHANGED <<args, file, lines, interactive, isatty, urls, extracts,
                   search_text, searches, songs, song_ids, k, revisions,
                   out_path, disk>>

\* download_gp_file, lines 105-123: the revision's detail and the file name.
GetRevisionDetail ==
    /\ pc = "Fetching"
    /\ trace' = Append(trace, Event("getRevisionDetail"))
    /\ \/ /\ Abort("HTTPError: revision")
          /\ UNCHANGED out_path
       \/ /\ Abort("RuntimeError: No GP export URL found in revision data")
          /\ UNCHANGED out_path
       \/ \E name \in FileNames :
             /\ out_path' = name
             /\ pc' = "Streaming"
             /\ UNCHANGED error
    /\ UNCHANGED <<args, file, lines, interactive, isatty, urls, extracts,
                   search_text, searches, songs, song_ids, k, revisions,
                   revision_id, disk, choice, reads>>

\* open(out_path, "wb"): the file exists and is empty, whatever it held.
Opened(d) ==
    {f \in d : f.path # out_path}
        \cup {[path |-> out_path, k |-> k, complete |-> FALSE]}

\* The file once every chunk is written.
Saved(d) ==
    {f \in d : f.path # out_path}
        \cup {[path |-> out_path, k |-> k, complete |-> TRUE]}

\* download_gp_file, lines 125-133: the request for the asset, the file
\* opened, the chunks written; then main's loop moves to the next song.
StreamAsset ==
    /\ pc = "Streaming"
    /\ \/ /\ Abort("HTTPError: asset")
          /\ trace' = Append(trace, Event("download"))
          /\ UNCHANGED <<disk, k>>
       \/ /\ Abort("OSError: open")
          /\ trace' = Append(trace, Event("download"))
          /\ UNCHANGED <<disk, k>>
       \/ /\ Abort("OSError: write")
          /\ trace' = trace \o <<Event("download"), Event("open")>>
          /\ disk' = Opened(disk)
          /\ UNCHANGED k
       \/ /\ trace' = trace \o <<Event("download"), Event("open"), Event("saved")>>
          /\ disk' = Saved(disk)
          /\ k' = NextSong(k)
          /\ pc' = IF NextSong(k) > Len(song_ids) THEN "Done" ELSE "PerSong"
          /\ UNCHANGED error
    /\ UNCHANGED <<args, file, lines, interactive, isatty, urls, extracts,
                   search_text, searches, songs, song_ids, revisions,
                   revision_id, out_path, choice, reads>>

(***************************************************************************)
(* The whole run.                                                          *)
(***************************************************************************)

\* Positional references of a run.
MaxArgs == 2

Url12 == Https \o <<"a", "-", "s", "1", "2">>
Url7 == Http \o <<"b", "-", "s", "7", "/", "x">>
Url3 == Http \o <<"c", "-", "s", "3">>
UrlNoId == Https \o <<"a", "-", "t", "a", "b">>
Words == <<"f", "o", "o">>

RunRefs == { Url12, Url7, Words }

\* What the file, or standard input, holds.
RunFiles == { <<>>, << <<" ">> \o Url3 \o <<" ">>, <<"#", "c">> >> }

\* Before main's try block: nothing resolved, nothing written.
Fresh ==
    /\ error = "none"
    /\ extracts = <<>>
    /\ search_text = <<>>
    /\ searches = <<>>
    /\ songs = <<>>
    /\ song_ids = <<>>
    /\ k = 0
    /\ revisions = <<>>
    /\ revision_id = 0
    /\ out_path = ""
    /\ disk = {}
    /\ trace = <<>>
    /\ choice = <<>>
    /\ reads = 0

Init ==
    /\ pc = "Normalizing"
    /\ args \in SeqsUpTo(RunRefs, MaxArgs)
    /\ file \in {"none", "path"}
    /\ lines \in RunFiles
    /\ interactive \in BOOLEAN
    /\ isatty \in BOOLEAN
    /\ urls = <<>>
    /\ Fresh

Next ==
    \/ Normalize
    \/ Resolve
    \/ PromptSearchText
    \/ SearchSongs
    \/ PromptSongChoice
    \/ GetRevisions
    \/ SelectRevision
    \/ PromptRevisionChoice
    \/ GetRevisionDetail
    \/ StreamAsset

Spec == Init /\ [][Next]_vars

(***************************************************************************)
(* The Input Normaliser alone: main up to line 232, over every merge of    *)
(* positionals and lines.                                                  *)
(***************************************************************************)

\* Positional references given to the normaliser.
MaxDirect == 3

\* Lines of the file or of standard input.
MaxLines == 2

DirectRefs == { Url12, Words, <<" ">> \o Words }

InputLines == { <<" ">> \o Url12 \o <<" ">>, Words, <<"#", "c">>, <<" ">> }

InitNormalizer ==
    /\ pc = "Normalizing"
    /\ args \in SeqsUpTo(DirectRefs, MaxDirect)
    /\ file \in {"none", "-", "path"}
    /\ lines \in SeqsUpTo(InputLines, MaxLines)
    /\ interactive \in BOOLEAN
    /\ isatty \in BOOLEAN
    /\ urls = <<>>
    /\ Fresh

NextNormalizer == Normalize

SpecNormalizer == InitNormalizer /\ [][NextNormalizer]_vars

Range(s) == {s[i] : i \in 1..Len(s)}

\* The position of the first occurrence of x in s.
FirstIndex(s, x) == Min({i \in 1..Len(s) : s[i] = x})

\* C10: the normalised sequence holds each reference of the merged input
\* (positionals first, then the kept lines) exactly once, in the order of
\* the first occurrences, so every positional comes before every reference
\* that only a line supplies; deduplicating it again changes nothing.
C10_NormalizedUniqueFirstOccurrence ==
    pc = "Resolving" =>
        /\ NoDuplicates(urls)
        /\ Range(urls) = Range(MergedInput)
        /\ \A i, j \in 1..Len(urls) :
              i < j => FirstIndex(MergedInput, urls[i]) < FirstIndex(MergedInput, urls[j])
        /\ \A i, j \in 1..Len(urls) :
              (urls[i] \in Range(args) /\ urls[j] \notin Range(args)) => i < j
        /\ dedupe_preserve_order(urls) = urls

\* A positional repeated, and a line that adds a reference after them.
C10_Witness ==
    /\ pc = "Resolving"
    /\ file = "path"
    /\ Len(args) = 3
    /\ args[1] = args[3]
    /\ args[1] # args[2]
    /\ Len(urls) = 3
    /\ urls[3] \notin Range(args)

(***************************************************************************)
(* The Revision Selector alone: one song of a run, from the list           *)
(* get_revisions returned (never empty, lines 30-31) to the revision       *)
(* chosen, over every list.                                                *)
(***************************************************************************)

\* Revisions of one song.
MaxRevs == 3

InitSelector ==
    /\ pc = "Selecting"
    /\ error = "none"
    /\ args = <<Url12>>
    /\ file = "none"
    /\ lines = <<>>
    /\ interactive \in BOOLEAN
    /\ isatty = TRUE
    /\ urls = <<Url12>>
    /\ extracts = <<Url12>>
    /\ search_text = <<>>
    /\ searches = <<>>
    /\ songs = <<>>
    /\ song_ids = <<12>>
    /\ k = 1
    /\ revisions \in SeqsUpTo(RevPool, MaxRevs) \ {<<>>}
    /\ revision_id = 0
    /\ out_path = ""
    /\ disk = {}
    /\ trace = << [op |-> "listRevisions", k |-> 1, song |-> 12] >>
    /\ choice = <<>>
    /\ reads = 0

NextSelector ==
    \/ SelectRevision
    \/ PromptRevisionChoice

SpecSelector == InitSelector /\ [][NextSelector]_vars

RevisionIds == {revisions[i].revisionId : i \in 1..Len(revisions)}

\* The entry is a decimal numeral.
IsNumeral(c) == c # <<>> /\ \A i \in 1..Len(c) : c[i] \in Digit

\* C5: in batch mode the revision chosen is one of the list and no revision
\* of the list has a higher revisionId, whatever the order of the list and
\* whatever the createdAt values are.
C5_BatchSelectsMaxRevisionId ==
    (pc = "Fetching" /\ ~interactive) =>
        /\ revision_id \in RevisionIds
        /\ \A id \in RevisionIds : id <= revision_id

\* The highest revisionId is neither the last of the list nor the revision
\* created last.
C5_Witness ==
    /\ pc = "Fetching"
    /\ ~interactive
    /\ Len(revisions) = 3
    /\ revision_id = 9
    /\ revisions[1].revisionId = 9
    /\ revisions[2].revisionId = 7
    /\ revisions[3].revisionId = 5

\* C6: in interactive mode the revision chosen is one of the list; a single
\* revision is chosen with no input read; with several, the last line read
\* is the one that decided: blank (after trimming) gives the highest
\* revisionId, a numeral k in 1..N gives the revisionId listed k-th, and no
\* other line ends the prompt with a result; while the prompt goes on
\* nothing is chosen.
C6_InteractiveSelection ==
    /\ (pc = "Fetching" /\ interactive) =>
          /\ revision_id \in RevisionIds
          /\ Len(revisions) = 1 => (reads = 0 /\ revision_id = revisions[1].revisionId)
          /\ Len(revisions) > 1 =>
                /\ reads >= 1
                /\ LET c == strip(choice)
                   IN  \/ /\ c = <<>>
                          /\ \A id \in RevisionIds : id <= revision_id
                       \/ /\ IsNumeral(c)
                          /\ int_of(c) \in 1..Len(revisions)
                          /\ revision_id = revisions[int_of(c)].revisionId
    /\ pc = "RevisionPrompt" =>
          /\ revision_id = 0
          /\ Len(revisions) > 1
          /\ \A i \in 1..Len(trace) : trace[i].op # "select"

\* After a rejected line, the padded entry 2 chose the second of three
\* revisions, which is not the highest.
C6_Witness ==
    /\ pc = "Fetching"
    /\ interactive
    /\ Len(revisions) = 3
    /\ reads = 2
    /\ choice = <<" ", "2", " ">>
    /\ revision_id = revisions[2].revisionId
    /\ \E id \in RevisionIds : id > revision_id

(***************************************************************************)
(* The Resolver alone: resolve_song_ids on every normalised list, to the   *)
(* identifiers it returns or the error it raises.                          *)
(***************************************************************************)

\* References of a normalised list.
MaxRefs == 2

UrlZero == Https \o <<"a", "-", "s", "0">>
TextWithId == <<"a", "b", "-", "s", "3">>

ResolverRefs == { Url12, UrlNoId, UrlZero, Words, TextWithId, <<>>, <<" ">> }

\* The state main is in after line 232 when the positionals were the only
\* source and held no duplicate.
InitResolver ==
    /\ pc = "Resolving"
    /\ urls \in {us \in SeqsUpTo(ResolverRefs, MaxRefs) : NoDuplicates(us)}
    /\ args = urls
    /\ file = "none"
    /\ lines = <<>>
    /\ interactive \in BOOLEAN
    /\ isatty = TRUE
    /\ Fresh

NextResolver ==
    \/ Resolve
    \/ PromptSearchText
    \/ SearchSongs
    \/ PromptSongChoice

SpecResolver == InitResolver /\ [][NextResolver]_vars

AllUrlShaped == \A i \in 1..Len(urls) : is_url(urls[i])

\* C1: in batch mode a non-empty list with a reference that is not
\* URL-shaped makes resolve fail with no identifier, also when that
\* reference holds a -s<digits> token; a list it resolves gives one
\* identifier per reference.
C1_BatchRejectsNonUrl ==
    (~interactive /\ urls # <<>> /\ pc # "Resolving") =>
        IF AllUrlShaped
        THEN pc = "PerSong" => Len(song_ids) = Len(urls)
        ELSE pc = "Aborted" /\ song_ids = <<>>

\* C9: every identifier the Resolver hands to the per-song stage is greater
\* than zero.
C9_SongIdsPositive ==
    \A i \in 1..Len(song_ids) : song_ids[i] > 0

\* C7: one search result is chosen with no prompt; with several, the loop
\* asks again after every line that is not a numeral k in 1..N, returns the
\* songId listed k-th when it is one, and ends in no other way.
C7_SongPromptRule ==
    /\ [](pc = "PerSong" /\ Len(songs) = 1 =>
             reads = 0 /\ song_ids = <<songs[1].songId>>)
    /\ [][(pc = "SongPrompt" /\ choice' # EOF) =>
             LET c == strip(choice')
             IN  IF IsNumeral(c) /\ int_of(c) \in 1..Len(songs)
                 THEN pc' = "PerSong" /\ song_ids' = <<songs[int_of(c)].songId>>
                 ELSE pc' = "SongPrompt" /\ song_ids' = song_ids]_vars

\* C8 as stated: in interactive mode every non-empty list that is not all
\* URL-shaped leads to exactly one search, for the references joined.
C8_AlwaysOneSearchOfJoinedReferences ==
    (interactive /\ urls # <<>> /\ ~AllUrlShaped /\ pc \notin {"Resolving", "Searching"}) =>
        searches = <<join(urls)>>

\* A search was issued for text and the identifier returned, if any, is one
\* of its results.
SearchedFor(text) ==
    /\ search_text = text
    /\ pc = "Searching" => searches = <<>>
    /\ pc # "Searching" => searches = <<text>>
    /\ pc = "PerSong" =>
          /\ Len(song_ids) = 1
          /\ \E i \in 1..Len(songs) : songs[i].songId = song_ids[1]

\* C8, amended: in interactive mode, a non-empty list that is not all
\* URL-shaped is joined with single spaces and trimmed; blank, the Resolver
\* fails before any search; otherwise there is exactly one search, for the
\* trimmed text, and the result is one identifier, a songId of the results;
\* no extraction is attempted. An empty list prompts for the text, fails
\* before any search when it is blank after trimming and searches for the
\* trimmed text otherwise. A non-empty all-URL list is resolved by
\* extraction alone: no search, no prompt.
C8_InteractiveDecisionTable ==
    interactive =>
        /\ Len(searches) <= 1
        /\ (urls # <<>> /\ ~AllUrlShaped /\ pc # "Resolving") =>
              /\ extracts = <<>>
              /\ IF strip(join(urls)) = <<>>
                 THEN pc = "Aborted" /\ searches = <<>> /\ song_ids = <<>>
                 ELSE SearchedFor(strip(join(urls)))
        /\ (urls = <<>> /\ pc \notin {"Resolving", "SearchTextPrompt"}) =>
              /\ extracts = <<>>
              /\ IF search_text = <<>>
                 THEN /\ pc = "Aborted"
                      /\ searches = <<>>
                      /\ song_ids = <<>>
                      /\ choice = EOF \/ strip(choice) = <<>>
                 ELSE /\ SearchedFor(search_text)
                      /\ pc = "Searching" => search_text = strip(choice)
        /\ (urls # <<>> /\ AllUrlShaped /\ pc # "Resolving") =>
              /\ searches = <<>>
              /\ songs = <<>>
              /\ reads = 0
              /\ pc \in {"PerSong", "Aborted"}
              /\ pc = "PerSong" => (extracts = urls /\ Len(song_ids) = Len(urls))

\* A URL and search words given together: one search, the second of two
\* results chosen at the prompt.
C8_Witness ==
    /\ interactive
    /\ pc = "PerSong"
    /\ urls = <<Url12, Words>>
    /\ searches = << Url12 \o <<" ">> \o Words >>
    /\ Len(songs) = 2
    /\ reads >= 1
    /\ song_ids = <<songs[2].songId>>
    /\ songs[1].songId # songs[2].songId

(***************************************************************************)
(* Claims about the whole run, under Spec.                                 *)
(***************************************************************************)

HasIdToken(ref) == \E i \in 1..Len(ref) : MatchAt(ref, i)

NoPerSongWork ==
    /\ trace = <<>>
    /\ disk = {}
    /\ revisions = <<>>
    /\ revision_id = 0
    /\ out_path = ""

\* The errors only the Resolver raises.
ResolverErrors ==
    { "ValueError: Could not extract song ID from URL",
      "RuntimeError: No URLs or search selection provided",
      "RuntimeError: Search text cannot be empty",
      "RuntimeError: No songs found for search",
      "HTTPError: search" }

\* C2: a run whose Resolver fails ends in Aborted with no per-song work:
\* no revision list requested, no revision chosen, no detail requested, no
\* file written. The Resolver fails on an empty list in batch mode, on a
\* reference with no identifier where identifiers are extracted (also
\* after valid references), on blank search text and on an empty search
\* result.
C2_ResolverFailureBeforePerSongWork ==
    /\ (pc = "Aborted" /\ song_ids = <<>>) => NoPerSongWork
    /\ error \in ResolverErrors =>
          (pc = "Aborted" /\ song_ids = <<>> /\ NoPerSongWork)
    /\ (/\ pc \notin {"Normalizing", "Resolving"}
        /\ ~interactive \/ (urls # <<>> /\ AllUrlShaped)
        /\ urls = <<>> \/ \E i \in 1..Len(urls) : ~HasIdToken(urls[i]))
          => (pc = "Aborted" /\ song_ids = <<>> /\ NoPerSongWork)

\* Batch mode, a valid URL followed by words: extraction succeeded on the
\* first reference and failed on the second.
C2_Witness ==
    /\ pc = "Aborted"
    /\ ~interactive
    /\ Len(urls) = 2
    /\ HasIdToken(urls[1])
    /\ ~HasIdToken(urls[2])
    /\ extracts = urls
    /\ error = "ValueError: Could not extract song ID from URL"

PerSongFailure == pc = "Aborted" /\ song_ids # <<>>

SavedEvent(j) == [op |-> "saved", k |-> j, song |-> song_ids[j]]

\* What C3 says apart from the files: the run that fails at song k stops
\* there, songs 1..k-1 were saved, no song after k was touched, no
\* operation was carried out twice, nothing follows the abort, and a
\* missing download source leaves no file opened for song k.
C3_StopsAtFirstError ==
    /\ [](PerSongFailure =>
             /\ k \in 1..Len(song_ids)
             /\ \A i \in 1..Len(trace) : trace[i].k <= k
             /\ \A j \in 1..(k - 1) : \E i \in 1..Len(trace) : trace[i] = SavedEvent(j)
             /\ \A i \in 1..Len(trace) : trace[i] # SavedEvent(k)
             /\ error = "RuntimeError: No GP export URL found in revision data" =>
                   /\ \A i \in 1..Len(trace) :
                         trace[i].k = k => trace[i].op \notin {"download", "open"}
                   /\ \A f \in disk : f.k # k)
    /\ [](\A i, j \in 1..Len(trace) : trace[i] = trace[j] => i = j)
    /\ [][pc # "Aborted"]_vars

Ops == <<"listRevisions", "select", "getRevisionDetail", "download", "open", "saved">>

\* The operations of a run that processes every song once, in order.
ExpectedTrace ==
    [i \in 1..(Len(Ops) * Len(song_ids)) |->
        [op |-> Ops[((i - 1) % Len(Ops)) + 1],
         k |-> ((i - 1) \div Len(Ops)) + 1,
         song |-> song_ids[((i - 1) \div Len(Ops)) + 1]]]

IsPrefix(s, t) == Len(s) <= Len(t) /\ SubSeq(t, 1, Len(s)) = s

\* C4: a run that reaches Done has carried out, for each identifier of the
\* resolved sequence, in resolver order and once each: the revision list,
\* the selection, the detail, the download, the file; at every moment the
\* operations carried out are a prefix of that sequence, so a song is
\* selected only after the song before it is saved. Every file is
\* complete; one song gives exactly one file; batch mode processes one
\* song per reference.
C4_DoneEverySongOnceInOrder ==
    /\ song_ids # <<>> => IsPrefix(trace, ExpectedTrace)
    /\ pc = "Done" =>
          /\ error = "none"
          /\ song_ids # <<>>
          /\ trace = ExpectedTrace
          /\ disk # {}
          /\ \A f \in disk : f.complete
          /\ Len(song_ids) = 1 => Cardinality(disk) = 1
          /\ ~interactive => Len(song_ids) = Len(urls)

\* Batch mode, three references, three songs saved.
C4_Witness ==
    /\ pc = "Done"
    /\ ~interactive
    /\ Len(song_ids) = 3
    /\ Cardinality(disk) = 2
====
